---- MODULE Spec2Model ----
(***************************************************************************)
(* Model of the scroll-triggered animation system (src/js/animation.js,    *)
(* class ScrollAnimation with its page-level listeners) and of the mobile  *)
(* menu toggle (src/unnamed/part_000), running on one page's event loop.   *)
(*                                                                         *)
(* The page is a small document: a navigation panel, a card, a footer      *)
(* region with a copyright paragraph, and a section with a paragraph and   *)
(* a footer column that scripts may insert later.  The browser facilities  *)
(* the code calls                                                          *)
(* (IntersectionObserver, requestAnimationFrame, setTimeout, the           *)
(* MutationObserver, event dispatch) are modelled by what the code relies  *)
(* on: observe() ignores a target it already holds, a rendering frame runs *)
(* the pending animation-frame callbacks and then samples the observed     *)
(* targets, timers run no earlier than their delay.                        *)
(***************************************************************************)
EXTENDS Integers, Sequences, FiniteSets, TLC

(* ------------------------------ bounds -------------------------------- *)

\* Screens the page is tall: the viewport shows screen scrollY of 0..LastScreen.
LastScreen == 1

\* Entries the IntersectionObserver may hold queued before it notifies.
MaxEntries == 2

\* Animation-frame callbacks that may be pending at once.
MaxRaf == 2

\* Calls of resetAnimations in one run.
MaxResets == 1

\* Calls of triggerAnimation in one run.
MaxTriggers == 1

\* visibilitychange rescans that may be pending at once.
MaxVisTimers == 1

\* Granularity of the clock, in milliseconds.
TickMs == 50

\* Resize events in one burst.
MaxBurst == 3

(* ------------------------- program constants -------------------------- *)

BootDelay == 50

FallbackDelay == 100

VisibilityDelay == 100

ResizeDelay == 250

(* --------------------------- the document ----------------------------- *)

Nodes == {"navbar", "card", "section", "para", "aside", "footer", "copy"}

\* Document order, the order querySelectorAll reports matches in.
DocOrder == <<"navbar", "card", "section", "para", "aside", "footer", "copy">>

NavTags == {"nav", "div"}

\* Markup classes of each node.
BaseClasses(e) ==
  CASE e = "navbar"  -> {"navbar"}
    [] e = "card"    -> {"card"}
    [] e = "section" -> {}
    [] e = "para"    -> {"scale-in"}
    [] e = "aside"   -> {"footer__section"}
    [] e = "footer"  -> {"footer__bottom"}
    [] e = "copy"    -> {}

ParentOf(e) ==
  CASE e = "para" -> "section"
    [] e = "copy" -> "footer"
    [] OTHER      -> "body"

\* The screen a node is laid out on: the panel at the top, the footer at the bottom.
ScreenOf(e) ==
  CASE e = "navbar"  -> 0
    [] e = "card"    -> 1
    [] e = "section" -> 1
    [] e = "para"    -> 1
    [] e = "aside"   -> 1
    [] e = "footer"  -> LastScreen
    [] e = "copy"    -> LastScreen

\* Subtrees a script may insert under the body after page load.
Insertable == {"card", "section"}

\* The same, with a footer column: <aside class="footer__section">.
InsertableColumns == Insertable \cup {"aside"}

Subtree(root) == {root} \cup {e \in Nodes : ParentOf(e) = root}

(* ---------------------------- selectors ------------------------------- *)

TagSel(n) == [kind |-> "tag", name |-> n, rest |-> n, neg |-> ""]

ClassSel(n) == [kind |-> "class", name |-> n, rest |-> n, neg |-> ""]

\* this.animationClasses
animationClasses == {"fade-in-up", "fade-in-down", "fade-in-left", "fade-in-right", "scale-in"}

\* this.targetElements; rest is the selector text after its first character,
\* which is what selector.slice(1) yields for a selector starting with '.'.
targetElements ==
  << TagSel("h1"), TagSel("h2"), TagSel("h3"), TagSel("h4"), TagSel("h5"), TagSel("h6"),
     TagSel("p"), TagSel("span"), TagSel("div"),
     TagSel("form"), TagSel("input"), TagSel("textarea"), TagSel("button"),
     ClassSel("card"), ClassSel("service-card"), ClassSel("stat-card"),
     ClassSel("contact__item"), ClassSel("about__text"), ClassSel("hero__text"),
     [kind |-> "classNot", name |-> "footer__section",
      rest |-> "footer__section:not(.footer__bottom)", neg |-> "footer__bottom"],
     ClassSel("social-link"),
     ClassSel("services-overview__title"), ClassSel("why-choose-services__title"),
     ClassSel("service-process__title"),
     ClassSel("cta__title"), ClassSel("services-hero__title") >>

\* this.excludedElements; a "descendant" selector is '<base> *'.
excludedElements ==
  << ClassSel("footer__bottom"),
     [kind |-> "descendant", name |-> "footer__bottom", rest |-> "footer__bottom *", neg |-> ""],
     ClassSel("footer__copyright"),
     ClassSel("footer__bottom-links"),
     ClassSel("footer__bottom-content") >>

(* ------------------------------ state --------------------------------- *)

VARIABLES
  doc,              \* nodes in the document
  navTag,           \* element type of the navigation panel in this page's markup
  hasToggle,        \* the page has a .mobile-menu-toggle (with its <i> icon)
  ioSupported,      \* 'IntersectionObserver' in window
  cls,              \* classList of each node
  animated,         \* node has data-animated="true"
  icon,             \* className of the toggle's icon
  menuWired,        \* the menu's click listeners are registered
  scrollAnimation,  \* window.scrollAnimation is set
  observer,         \* this.observer: "undefined" or "created"
  targets,          \* the observer's observation targets, in observe() order
  prev,             \* per target: what the observer last reported for it
  queued,           \* entries the observer has queued and not yet delivered
  rafQueue,         \* targets of the pending animation-frame callbacks
  mutationObserver, \* handleDynamicContent has registered its observer
  resizeListener,   \* handleResize has registered its listener
  scrollY,          \* the screen the viewport shows
  pageVisible,      \* document.visibilityState === 'visible'
  timers,           \* pending setTimeout timers: [kind, id, rem]
  resizeTimeout,    \* handleResize's resizeTimeout: a timer id, 0 while undefined
  err,              \* an uncaught TypeError has been thrown
  activations,      \* history: runs of the activation mutation per node since a reset
  resets,           \* history: calls of resetAnimations
  triggers,         \* history: calls of triggerAnimation
  wasActive,        \* history: the nodes that had the active class at the last reset
  lastClick,        \* history: the last click's target, whether the panel was open
                    \* before it, and the parity of the clicks' count
  sinceResize,      \* history: ms since the last resize event, -1 before the first
  burstScans,       \* history: resize rescans since the current burst began
  closedScans,      \* history: resize rescans the last finished burst got, -1 if none
  burstLen          \* history: resize events of the current burst

domVars == <<doc, navTag, hasToggle, ioSupported, cls, animated, icon, menuWired>>

ioVars == <<scrollAnimation, observer, targets, prev, queued, rafQueue, mutationObserver, resizeListener>>

envVars == <<scrollY, pageVisible>>

timerVars == <<timers, resizeTimeout>>

histVars == <<activations, resets, triggers, wasActive, lastClick>>

resizeHist == <<sinceResize, burstScans, closedScans, burstLen>>

vars == <<domVars, ioVars, envVars, timerVars, err, histVars, resizeHist>>

(* ----------------------------- helpers -------------------------------- *)

Range(s) == {s[i] : i \in DOMAIN s}

RECURSIVE Min(_)
Min(S) ==
  LET x == CHOOSE y \in S : TRUE
  IN  IF S = {x} THEN x
      ELSE LET m == Min(S \ {x}) IN IF x < m THEN x ELSE m

\* element.tagName.toLowerCase()
TagOf(e) ==
  CASE e = "navbar"  -> navTag
    [] e = "card"    -> "div"
    [] e = "section" -> "section"
    [] e = "para"    -> "p"
    [] e = "aside"   -> "aside"
    [] e = "footer"  -> "div"
    [] e = "copy"    -> "p"

\* element.closest('.' + name) !== null: the element itself or an ancestor has the class.
RECURSIVE Closest(_, _, _)
Closest(c, e, name) ==
  IF e = "body" THEN FALSE
  ELSE name \in c[e] \/ Closest(c, ParentOf(e), name)

\* Whether node e matches CSS selector sel (the selector forms of targetElements).
MatchesSelector(c, e, sel) ==
  CASE sel.kind = "tag"        -> TagOf(e) = sel.name
    [] sel.kind = "class"      -> sel.name \in c[e]
    [] sel.kind = "classNot"   -> sel.name \in c[e] /\ sel.neg \notin c[e]
    [] sel.kind = "descendant" -> ParentOf(e) # "body" /\ Closest(c, ParentOf(e), sel.name)

\* document.querySelectorAll(sel): the matching nodes of document d, in document order.
querySelectorAll(d, c, sel) ==
  LET Hit(e) == e \in d /\ MatchesSelector(c, e, sel)
  IN  SelectSeq(DocOrder, Hit)

\* Nodes of document d that some inclusion selector matches.
Included(d, c) ==
  {e \in d : \E i \in DOMAIN targetElements : MatchesSelector(c, e, targetElements[i])}

isElementExcludedNoWildcard(c, e) ==
  \E i \in DOMAIN excludedElements :
    LET selector == excludedElements[i]
    IN  IF selector.kind \in {"class", "classNot", "descendant"}
        THEN selector.rest \in c[e]
        ELSE TagOf(e) = selector.name

isElementExcluded(c, e) ==
  \E i \in DOMAIN excludedElements :
    LET selector == excludedElements[i]
    IN  IF selector.kind = "descendant"
        THEN Closest(c, e, selector.name)
        ELSE IF selector.kind \in {"class", "classNot"}
        THEN selector.rest \in c[e]
        ELSE TagOf(e) = selector.name

shouldAnimateElement(c, e) ==
  \E i \in DOMAIN targetElements :
    LET selector == targetElements[i]
    IN  IF selector.kind \in {"class", "classNot"}
        THEN selector.rest \in c[e]
        ELSE TagOf(e) = selector.name

(* ------------------------- browser facilities ------------------------- *)

\* IntersectionObserver.observe(e): a target already observed is left as it is.
Observe(t, e) == IF e \in Range(t) THEN t ELSE Append(t, e)

\* IntersectionObserver.unobserve(e)
Unobserve(t, e) ==
  LET Keep(x) == x # e
  IN  SelectSeq(t, Keep)

RECURSIVE ObserveAll(_, _)
ObserveAll(t, es) ==
  IF es = <<>> THEN t ELSE ObserveAll(Observe(t, Head(es)), Tail(es))

\* Whether node e intersects the viewport (root margin and threshold applied).
InView(d, y, e) == e \in d /\ ScreenOf(e) = y

\* setTimeout: the new timer's id, unused among the pending timers of its kind.
FreshId(ts, kind) ==
  Min({i \in 1..(Cardinality(ts) + 1) : ~\E t \in ts : t.kind = kind /\ t.id = i})

SetTimeout(ts, kind, delay) ==
  ts \cup {[kind |-> kind, id |-> FreshId(ts, kind), rem |-> delay]}

\* clearTimeout(id) for a timer of the given kind; no timer has id 0.
ClearTimeout(ts, kind, id) == {t \in ts : ~(t.kind = kind /\ t.id = id)}

Pending(kind) == {t \in timers : t.kind = kind}

Due(kind) == {t \in timers : t.kind = kind /\ t.rem = 0}

(* --------------------------- ScrollAnimation -------------------------- *)

\* The elements observeElements collects, in the order it pushes them: for each
\* inclusion selector, the matches that are neither marked animated nor excluded.
\* (The default class the loop adds on the way changes neither test.)
RECURSIVE ElementsToAnimate(_, _, _, _)
ElementsToAnimateKeepAnimated(d, c, a, i) ==
  IF i > Len(targetElements) THEN <<>>
  ELSE LET Keep(e) == ~isElementExcluded(c, e)
       IN  SelectSeq(querySelectorAll(d, c, targetElements[i]), Keep)
           \o ElementsToAnimate(d, c, a, i + 1)

ElementsToAnimate(d, c, a, i) ==
  IF i > Len(targetElements) THEN <<>>
  ELSE LET Keep(e) == ~a[e] /\ ~isElementExcluded(c, e)
       IN  SelectSeq(querySelectorAll(d, c, targetElements[i]), Keep)
           \o ElementsToAnimate(d, c, a, i + 1)

\* observeElements() on document d with classes c, markers a, observer state obs
\* and targets t: the classes and targets it leaves, and whether it threw
\* (this.observer.observe on an undefined observer).
observeElements(d, c, a, obs, t) ==
  LET elementsToAnimate == ElementsToAnimate(d, c, a, 1)
      withDefault == [e \in Nodes |->
                        IF e \in Range(elementsToAnimate) /\ c[e] \cap animationClasses = {}
                        THEN c[e] \cup {"fade-in-up"}
                        ELSE c[e]]
  IN  IF obs = "created"
      THEN [cls |-> withDefault,
            targets |-> ObserveAll(t, elementsToAnimate),
            threw |-> FALSE]
      ELSE [cls |-> withDefault,
            targets |-> t,
            threw |-> elementsToAnimate # <<>>]

\* The state change of a call of observeElements().
Rescan(d, c, a) ==
  LET r == observeElements(d, c, a, observer, targets)
  IN  /\ cls' = r.cls
      /\ targets' = r.targets
      /\ err' = (err \/ r.threw)

\* handleIntersection(entries): one animation-frame callback is requested for
\* each entry that reports its target as intersecting; raf is the pending list.
handleIntersection(entries, raf) ==
  LET Intersecting(en) == en.isIntersecting
      hits == SelectSeq(entries, Intersecting)
  IN  raf \o [i \in 1..Len(hits) |-> hits[i].target]

AnimationFrameCallbackNoMarker(st, e) ==
  [cls         |-> [st.cls EXCEPT ![e] = @ \cup {"active"}],
   targets     |-> Unobserve(st.targets, e),
   prev        |-> [st.prev EXCEPT ![e] = "none"],
   animated    |-> st.animated,
   activations |-> [st.activations EXCEPT ![e] = @ + 1]]

\* The animation-frame callback handleIntersection requested for element e, run
\* on st = [cls, animated, targets, prev, activations].
AnimationFrameCallback(st, e) ==
  [cls         |-> [st.cls EXCEPT ![e] = @ \cup {"active"}],
   targets     |-> Unobserve(st.targets, e),
   prev        |-> [st.prev EXCEPT ![e] = "none"],
   animated    |-> [st.animated EXCEPT ![e] = TRUE],
   activations |-> [st.activations EXCEPT ![e] = @ + 1]]

RECURSIVE RunAnimationFrames(_, _)
RunAnimationFrames(q, st) ==
  IF q = <<>> THEN st
  ELSE RunAnimationFrames(Tail(q), AnimationFrameCallback(st, Head(q)))

\* The observer's sampling step of a frame: an entry for each target whose
\* intersection differs from its last report (a new target has no report yet).
Report(d, y, e) == IF InView(d, y, e) THEN "in" ELSE "out"

NewEntries(d, y, t, p) ==
  LET Changed(e) == p[e] # Report(d, y, e)
      ch == SelectSeq(t, Changed)
  IN  [i \in 1..Len(ch) |-> [target |-> ch[i], isIntersecting |-> InView(d, y, ch[i])]]

(* ------------------------------ actions ------------------------------- *)

\* The 50 ms timer of the DOMContentLoaded listener runs: new ScrollAnimation(),
\* whose constructor runs init(), and window.scrollAnimation is set.
Boot ==
  /\ \E t \in Due("boot") : timers' = IF ioSupported
                                      THEN timers \ {t}
                                      ELSE SetTimeout(timers \ {t}, "fallback", FallbackDelay)
  /\ scrollAnimation' = TRUE
  /\ IF ioSupported
     THEN /\ observer' = "created"
          /\ LET r == observeElements(doc, cls, animated, "created", targets)
             IN  /\ cls' = r.cls
                 /\ targets' = r.targets
                 /\ err' = (err \/ r.threw)
          /\ mutationObserver' = TRUE
          /\ resizeListener' = TRUE
     ELSE UNCHANGED <<observer, cls, targets, err, mutationObserver, resizeListener>>
  /\ UNCHANGED <<doc, navTag, hasToggle, ioSupported, animated, icon, menuWired>>
  /\ UNCHANGED <<prev, queued, rafQueue, envVars, resizeTimeout, histVars, resizeHist>>

FallbackRevealSkipExcluded ==
  /\ \E t \in Due("fallback") : timers' = timers \ {t}
  /\ LET matched == {e \in Included(doc, cls) : ~isElementExcluded(cls, e)}
     IN  cls' = [e \in Nodes |->
                   IF e \in matched /\ "active" \notin cls[e]
                   THEN cls[e] \cup {"fade-in-up", "active"}
                   ELSE cls[e]]
  /\ UNCHANGED <<doc, navTag, hasToggle, ioSupported, animated, icon, menuWired>>
  /\ UNCHANGED <<ioVars, envVars, resizeTimeout, err, histVars, resizeHist>>

\* The 100 ms timer of fallbackAnimation runs.
FallbackReveal ==
  /\ \E t \in Due("fallback") : timers' = timers \ {t}
  /\ LET matched == Included(doc, cls)
     IN  cls' = [e \in Nodes |->
                   IF e \in matched /\ "active" \notin cls[e]
                   THEN cls[e] \cup {"fade-in-up", "active"}
                   ELSE cls[e]]
  /\ UNCHANGED <<doc, navTag, hasToggle, ioSupported, animated, icon, menuWired>>
  /\ UNCHANGED <<ioVars, envVars, resizeTimeout, err, histVars, resizeHist>>

\* A rendering frame of the visible page: the pending animation-frame callbacks
\* run, then the observer samples its targets and queues the changes.
Frame ==
  /\ pageVisible
  /\ LET st == RunAnimationFrames(rafQueue,
                 [cls |-> cls, animated |-> animated, targets |-> targets,
                  prev |-> prev, activations |-> activations])
         new == NewEntries(doc, scrollY, st.targets, st.prev)
     IN  /\ Len(queued) + Len(new) <= MaxEntries
         /\ cls' = st.cls
         /\ animated' = st.animated
         /\ targets' = st.targets
         /\ activations' = st.activations
         /\ queued' = queued \o new
         /\ prev' = [e \in Nodes |-> IF e \in Range(st.targets)
                                     THEN Report(doc, scrollY, e)
                                     ELSE st.prev[e]]
  /\ rafQueue' = <<>>
  /\ UNCHANGED <<doc, navTag, hasToggle, ioSupported, icon, menuWired>>
  /\ UNCHANGED <<scrollAnimation, observer, mutationObserver, resizeListener>>
  /\ UNCHANGED <<envVars, timerVars, err, resets, triggers, wasActive, lastClick, resizeHist>>

\* The observer notifies: its callback runs handleIntersection on the queued entries.
Deliver ==
  /\ queued # <<>>
  /\ rafQueue' = handleIntersection(queued, rafQueue)
  /\ Len(rafQueue') <= MaxRaf
  /\ queued' = <<>>
  /\ UNCHANGED <<domVars, scrollAnimation, observer, targets, prev, mutationObserver, resizeListener>>
  /\ UNCHANGED <<envVars, timerVars, err, histVars, resizeHist>>

\* The user scrolls to another screen.
Scroll ==
  /\ \E y \in 0..LastScreen : y # scrollY /\ scrollY' = y
  /\ UNCHANGED <<domVars, ioVars, pageVisible, timerVars, err, histVars, resizeHist>>

\* visibilitychange: the tab is hidden or shown; when it is shown and
\* window.scrollAnimation is set, a rescan is scheduled 100 ms on.
VisibilityChange ==
  /\ pageVisible' = ~pageVisible
  /\ IF pageVisible' /\ scrollAnimation
     THEN /\ Cardinality(Pending("visibility")) < MaxVisTimers
          /\ timers' = SetTimeout(timers, "visibility", VisibilityDelay)
     ELSE timers' = timers
  /\ UNCHANGED <<domVars, ioVars, scrollY, resizeTimeout, err, histVars, resizeHist>>

\* The 100 ms timer of the visibilitychange listener runs observeElements().
VisibilityRescan ==
  /\ \E t \in Due("visibility") : timers' = timers \ {t}
  /\ Rescan(doc, cls, animated)
  /\ UNCHANGED <<doc, navTag, hasToggle, ioSupported, animated, icon, menuWired>>
  /\ UNCHANGED <<scrollAnimation, observer, prev, queued, rafQueue, mutationObserver, resizeListener>>
  /\ UNCHANGED <<envVars, resizeTimeout, histVars, resizeHist>>

ResizeListenerKeepTimer ==
  /\ resizeListener
  /\ LET ts == SetTimeout(timers, "resize", ResizeDelay)
     IN  /\ timers' = ts
         /\ resizeTimeout' = (CHOOSE t \in ts \ timers : TRUE).id
  /\ UNCHANGED <<domVars, ioVars, envVars, err, histVars>>

\* The resize listener of handleResize: the pending debounce timer is cleared
\* and a new one set.
ResizeListener ==
  /\ resizeListener
  /\ LET cleared == ClearTimeout(timers, "resize", resizeTimeout)
         ts == SetTimeout(cleared, "resize", ResizeDelay)
     IN  /\ timers' = ts
         /\ resizeTimeout' = (CHOOSE t \in ts \ cleared : TRUE).id
  /\ UNCHANGED <<domVars, ioVars, envVars, err, histVars>>

\* The debounce timer runs observeElements().
ResizeTimer ==
  /\ \E t \in Due("resize") : timers' = timers \ {t}
  /\ Rescan(doc, cls, animated)
  /\ UNCHANGED <<doc, navTag, hasToggle, ioSupported, animated, icon, menuWired>>
  /\ UNCHANGED <<scrollAnimation, observer, prev, queued, rafQueue, mutationObserver, resizeListener>>
  /\ UNCHANGED <<envVars, resizeTimeout, histVars>>

\* A resize event, and the debounce timer running, with the clock not observed.
Resize == ResizeListener /\ UNCHANGED resizeHist

ResizeRescan == ResizeTimer /\ UNCHANGED resizeHist

\* A script inserts subtrees under the body; the MutationObserver of
\* handleDynamicContent, once registered, is called with the batch, whose
\* addedNodes are the roots inserted.
InsertFrom(insertable) ==
  \E roots \in SUBSET (insertable \ doc) :
    /\ roots # {}
    /\ doc' = doc \cup UNION {Subtree(r) : r \in roots}
    /\ LET shouldReobserve ==
             \E node \in roots : shouldAnimateElement(cls, node) /\ ~isElementExcluded(cls, node)
       IN  IF mutationObserver /\ shouldReobserve
           THEN Rescan(doc', cls, animated)
           ELSE UNCHANGED <<cls, targets, err>>
    /\ UNCHANGED <<navTag, hasToggle, ioSupported, animated, icon, menuWired>>
    /\ UNCHANGED <<scrollAnimation, observer, prev, queued, rafQueue, mutationObserver, resizeListener>>
    /\ UNCHANGED <<envVars, timerVars, histVars, resizeHist>>

Insert == InsertFrom(Insertable)

InsertColumns == InsertFrom(InsertableColumns)

\* Arguments triggerAnimation is called with: an element of the document, or a selector.
TriggerArgs ==
  {[element |-> e] : e \in doc \cap {"card", "section"}} \cup {[selector |-> TagSel("div")]}

triggerAnimationUnconditional(d, c, a, arg) ==
  LET elements == IF "selector" \in DOMAIN arg
                  THEN Range(querySelectorAll(d, c, arg.selector))
                  ELSE {arg.element}
  IN  [cls      |-> [e \in Nodes |-> IF e \in elements THEN c[e] \cup {"active"} ELSE c[e]],
       animated |-> [e \in Nodes |-> IF e \in elements THEN TRUE ELSE a[e]],
       hit      |-> elements]

\* triggerAnimation(arg) on classes c and markers a: [cls, animated, hit], hit being
\* the elements it activated.
triggerAnimation(d, c, a, arg) ==
  LET elements == IF "selector" \in DOMAIN arg
                  THEN Range(querySelectorAll(d, c, arg.selector))
                  ELSE {arg.element}
      hit == {e \in elements : "active" \notin c[e]}
  IN  [cls      |-> [e \in Nodes |-> IF e \in hit THEN c[e] \cup {"active"} ELSE c[e]],
       animated |-> [e \in Nodes |-> IF e \in hit THEN TRUE ELSE a[e]],
       hit      |-> hit]

\* A caller invokes window.scrollAnimation.triggerAnimation(arg).
TriggerAnimation ==
  /\ scrollAnimation
  /\ triggers < MaxTriggers
  /\ triggers' = triggers + 1
  /\ \E arg \in TriggerArgs :
       LET r == triggerAnimation(doc, cls, animated, arg)
       IN  /\ cls' = r.cls
           /\ animated' = r.animated
           /\ activations' = [e \in Nodes |-> IF e \in r.hit THEN activations[e] + 1
                                              ELSE activations[e]]
  /\ UNCHANGED <<doc, navTag, hasToggle, ioSupported, icon, menuWired>>
  /\ UNCHANGED <<ioVars, envVars, timerVars, err, resets, wasActive, lastClick, resizeHist>>

DeactivateKeepMarker(d, c, a) ==
  LET matched == Included(d, c)
  IN  [cls      |-> [e \in Nodes |-> IF e \in matched THEN c[e] \ {"active"} ELSE c[e]],
       animated |-> a]

\* The first loop of resetAnimations: every element an inclusion selector matches
\* loses the active class and the marker.
Deactivate(d, c, a) ==
  LET matched == Included(d, c)
  IN  [cls      |-> [e \in Nodes |-> IF e \in matched THEN c[e] \ {"active"} ELSE c[e]],
       animated |-> [e \in Nodes |-> IF e \in matched THEN FALSE ELSE a[e]]]

\* window.scrollAnimation.resetAnimations()
resetAnimations ==
  /\ scrollAnimation
  /\ resets < MaxResets
  /\ resets' = resets + 1
  /\ LET r == Deactivate(doc, cls, animated)
     IN  /\ animated' = r.animated
         /\ Rescan(doc, r.cls, r.animated)
  /\ activations' = [e \in Nodes |-> 0]
  /\ UNCHANGED <<doc, navTag, hasToggle, ioSupported, icon, menuWired>>
  /\ UNCHANGED <<scrollAnimation, observer, prev, queued, rafQueue, mutationObserver, resizeListener>>
  /\ UNCHANGED <<envVars, timerVars, triggers, lastClick, resizeHist>>

\* A caller invokes resetAnimations().
ResetAnimations == resetAnimations /\ UNCHANGED wasActive

\* The same call, with the nodes that were active before it recorded.
ResetAnimationsRecorded == resetAnimations /\ wasActive' = {e \in doc : "active" \in cls[e]}

(* ----------------------------- menu toggle ---------------------------- *)

\* What a click may land on: the trigger (or its icon), a navigation link of the
\* panel, the panel outside its links, anything outside the panel and the trigger.
ClickTargets == {"toggle", "link", "panel", "outside"}

NavbarContains(target) == target \in {"link", "panel"}

ToggleContains(target) == target = "toggle"

\* The trigger's click listener, on m = [open, icon].
ToggleClick(m) ==
  LET open == ~m.open
  IN  [open |-> open, icon |-> IF open THEN "ri-close-line" ELSE "ri-menu-line"]

LinkClickKeepIcon(m) == [open |-> FALSE, icon |-> m.icon]

\* A navigation link's click listener.
LinkClick(m) == [open |-> FALSE, icon |-> "ri-menu-line"]

DocumentClickAnyTarget(m, target) ==
  IF ~NavbarContains(target)
  THEN [open |-> FALSE, icon |-> "ri-menu-line"]
  ELSE m

\* The document's click listener, reached by bubbling.
DocumentClick(m, target) ==
  IF ~NavbarContains(target) /\ ~ToggleContains(target)
  THEN [open |-> FALSE, icon |-> "ri-menu-line"]
  ELSE m

\* The dispatch of one click: the listeners on the target's path, then the document's.
Dispatch(m, target) ==
  LET m1 == IF ToggleContains(target) THEN ToggleClick(m) ELSE m
      m2 == IF target = "link" THEN LinkClick(m1) ELSE m1
  IN  DocumentClick(m2, target)

PanelOpen == "active" \in cls["navbar"]

\* The user clicks somewhere on the page.
Click(target) ==
  /\ target = "toggle" => hasToggle
  /\ target \in {"link", "panel"} => "navbar" \in doc
  /\ IF menuWired
     THEN LET m == Dispatch([open |-> PanelOpen, icon |-> icon], target)
          IN  /\ cls' = [cls EXCEPT !["navbar"] = IF m.open THEN @ \cup {"active"}
                                                  ELSE @ \ {"active"}]
              /\ icon' = m.icon
     ELSE UNCHANGED <<cls, icon>>
  /\ lastClick' = [n |-> 1 - lastClick.n, target |-> target, open |-> PanelOpen]
  /\ UNCHANGED <<doc, navTag, hasToggle, ioSupported, animated, menuWired>>
  /\ UNCHANGED <<ioVars, envVars, timerVars, err, resizeHist>>
  /\ UNCHANGED <<activations, resets, triggers, wasActive>>

(* -------------------------------- time -------------------------------- *)

Elapse(d) ==
  timers' = {[t EXCEPT !.rem = IF t.rem > d THEN t.rem - d ELSE 0] : t \in timers}

\* Time passes until every pending timer's delay has elapsed.
TimePasses ==
  /\ \E t \in timers : t.rem > 0
  /\ Elapse(ResizeDelay)
  /\ UNCHANGED <<domVars, ioVars, envVars, resizeTimeout, err, histVars, resizeHist>>

\* Cap of the time counted since the last resize event.
QuietCap == ResizeDelay + TickMs

\* One tick of the clock; a timer whose delay has elapsed runs before the clock moves on.
Tick ==
  /\ \A t \in timers : t.rem > 0
  /\ Elapse(TickMs)
  /\ sinceResize' = IF sinceResize < 0 THEN sinceResize
                    ELSE IF sinceResize + TickMs > QuietCap THEN QuietCap
                    ELSE sinceResize + TickMs
  /\ UNCHANGED <<domVars, ioVars, envVars, resizeTimeout, err, histVars, burstScans, closedScans, burstLen>>

\* A resize event with the clock observed: it continues the burst when it comes
\* less than 250 ms after the previous event, and starts a new one otherwise.
\* A debounce timer whose delay has elapsed runs before an event of the same instant.
ResizeTimed ==
  /\ Due("resize") = {}
  /\ ResizeListener
  /\ sinceResize' = 0
  /\ IF sinceResize < 0
     THEN /\ burstLen' = 1
          /\ UNCHANGED <<burstScans, closedScans>>
     ELSE IF sinceResize < ResizeDelay
     THEN /\ burstLen < MaxBurst
          /\ burstLen' = burstLen + 1
          /\ UNCHANGED <<burstScans, closedScans>>
     ELSE /\ closedScans' = burstScans
          /\ burstScans' = 0
          /\ burstLen' = 1

ResizeRescanTimed ==
  /\ ResizeTimer
  /\ burstScans' = burstScans + 1
  /\ UNCHANGED <<sinceResize, closedScans, burstLen>>

(* --------------------------- specifications --------------------------- *)

\* The pages the model runs on: the document at DOMContentLoaded, the panel's
\* element type, whether the trigger exists, whether IntersectionObserver does.
Pages ==
  { [doc |-> {"navbar", "footer", "copy"},         navTag |-> "nav", toggle |-> TRUE, io |-> TRUE],
    [doc |-> {"navbar", "card", "footer", "copy"}, navTag |-> "nav", toggle |-> TRUE, io |-> FALSE] }

\* The pages the menu is exercised on: with and without its two elements, with
\* the panel as a <nav> and as a <div>, with and without IntersectionObserver.
MenuPages ==
  { [doc |-> {"navbar", "footer", "copy"}, navTag |-> "nav", toggle |-> TRUE,  io |-> TRUE],
    [doc |-> {"navbar", "footer", "copy"}, navTag |-> "div", toggle |-> TRUE,  io |-> TRUE],
    [doc |-> {"navbar", "footer", "copy"}, navTag |-> "div", toggle |-> TRUE,  io |-> FALSE],
    [doc |-> {"navbar", "footer", "copy"}, navTag |-> "nav", toggle |-> FALSE, io |-> TRUE],
    [doc |-> {"footer", "copy"},           navTag |-> "nav", toggle |-> TRUE,  io |-> TRUE] }

MenuWiredToggleOnly(pg) == pg.toggle

\* if (mobileMenuToggle && navbar): whether the menu's listeners get registered.
MenuWired(pg) == pg.toggle /\ "navbar" \in pg.doc

\* The page once DOMContentLoaded has been dispatched: the menu's listeners are
\* registered if both its elements exist, and the 50 ms boot timer is pending.
InitOn(pages) ==
  /\ \E pg \in pages :
       /\ doc = pg.doc
       /\ navTag = pg.navTag
       /\ hasToggle = pg.toggle
       /\ ioSupported = pg.io
       /\ menuWired = MenuWired(pg)
  /\ cls = [e \in Nodes |-> BaseClasses(e)]
  /\ animated = [e \in Nodes |-> FALSE]
  /\ icon = "ri-menu-line"
  /\ scrollAnimation = FALSE
  /\ observer = "undefined"
  /\ targets = <<>>
  /\ prev = [e \in Nodes |-> "none"]
  /\ queued = <<>>
  /\ rafQueue = <<>>
  /\ mutationObserver = FALSE
  /\ resizeListener = FALSE
  /\ scrollY = 0
  /\ pageVisible = TRUE
  /\ timers = SetTimeout({}, "boot", BootDelay)
  /\ resizeTimeout = 0
  /\ err = FALSE
  /\ activations = [e \in Nodes |-> 0]
  /\ resets = 0
  /\ triggers = 0
  /\ wasActive = {}
  /\ lastClick = [n |-> 0, target |-> "none", open |-> FALSE]
  /\ sinceResize = -1
  /\ burstScans = 0
  /\ closedScans = -1
  /\ burstLen = 0

Init == InitOn(Pages)

Next ==
  \/ Boot
  \/ FallbackReveal
  \/ Frame
  \/ Deliver
  \/ Scroll
  \/ VisibilityChange
  \/ VisibilityRescan
  \/ Resize
  \/ ResizeRescan
  \/ Insert
  \/ TriggerAnimation
  \/ ResetAnimations
  \/ TimePasses

Spec == Init /\ [][Next]_vars

\* The page with IntersectionObserver available.
WatchPages == {pg \in Pages : pg.io}

InitWatch == InitOn(WatchPages)

NextWatch ==
  \/ Boot
  \/ Frame
  \/ Deliver
  \/ Scroll
  \/ VisibilityChange
  \/ VisibilityRescan
  \/ Resize
  \/ ResizeRescan
  \/ Insert
  \/ TriggerAnimation
  \/ ResetAnimationsRecorded
  \/ TimePasses

SpecWatch == InitWatch /\ [][NextWatch]_vars

\* The menu, with the animation system running beside it on the same page.
InitMenu == InitOn(MenuPages)

NextMenu ==
  \/ \E target \in ClickTargets : Click(target)
  \/ Boot
  \/ FallbackReveal
  \/ Frame
  \/ Deliver
  \/ Scroll
  \/ TriggerAnimation
  \/ ResetAnimations
  \/ TimePasses

SpecMenu == InitMenu /\ [][NextMenu]_vars

\* The page under resize events and insertions alone, with the clock observed.
NextResize ==
  \/ Boot
  \/ Tick
  \/ ResizeTimed
  \/ ResizeRescanTimed
  \/ Insert

SpecResize == Init /\ [][NextResize]_vars

\* The page with IntersectionObserver under insertions of every kind of subtree.
NextInsert ==
  \/ Boot
  \/ InsertColumns
  \/ Frame
  \/ Deliver
  \/ Scroll
  \/ TimePasses

SpecInsert == InitWatch /\ [][NextInsert]_vars

(* ------------------------------- claims ------------------------------- *)

Activated(e) == "active" \in cls[e] /\ animated[e]

Watched(e) == e \in Range(targets)

PendingActivation(e) == e \in Range(rafQueue)

NoDuplicates(q) == \A i, j \in DOMAIN q : q[i] = q[j] => i = j

\* C1: the frame that runs the animation-frame callback requested for an element
\* leaves it with both the active class and data-animated="true", and an element
\* that has both keeps both in every step that is not a call of resetAnimations
\* (scrolls, frames, notifications, rescans after resize, insertion and tab
\* refocus), so it goes from not activated to activated at most once between resets.
C1_ActivatedOnceAndKept ==
  [][ \A e \in Nodes :
        /\ (PendingActivation(e) /\ rafQueue' = <<>>) => Activated(e)'
        /\ (Activated(e) /\ resets' = resets) => Activated(e)' ]_vars

\* C1 witness: the card was activated through the viewport path (no call of
\* triggerAnimation or resetAnimations was made, and it is released from
\* observation) and has since left the viewport, and a later scan has put an
\* inserted paragraph under observation.
C1_Witness ==
  /\ Activated("card")
  /\ ~Watched("card")
  /\ triggers = 0 /\ resets = 0
  /\ ~InView(doc, scrollY, "card")
  /\ "para" \in doc /\ Watched("para")

\* C2: the activation mutation runs at most once per element between resets, and
\* no two animation-frame callbacks are pending for the same element.
C2_AtMostOneActivationSignal ==
  /\ \A e \in Nodes : activations[e] <= 1
  /\ NoDuplicates(rafQueue)

\* C3: no element has a pending activation while it is still watched: the callback
\* that decides to activate has already released it from observation.
C3_UnwatchedWhenActivationPending ==
  \A e \in Nodes : PendingActivation(e) => ~Watched(e)

\* The elements the exclusion list names: those with one of the four footer
\* classes, and .footer__bottom with everything inside it.
MatchesExclusion(e) ==
  \/ cls[e] \cap {"footer__bottom", "footer__copyright",
                  "footer__bottom-links", "footer__bottom-content"} # {}
  \/ Closest(cls, e, "footer__bottom")

\* C4: an element that matches an exclusion selector is never watched, never
\* reported or scheduled for activation, never given the default animation class
\* by the scan, and never activated by the scan/watch path (with the observer
\* available, it is active only if triggerAnimation was called).
C4_ExclusionTakesPrecedence ==
  \A e \in Nodes :
    MatchesExclusion(e) =>
      /\ ~Watched(e)
      /\ ~PendingActivation(e)
      /\ \A i \in DOMAIN queued : queued[i].target # e
      /\ ioSupported => "fade-in-up" \notin cls[e]
      /\ (ioSupported /\ triggers = 0) => ("active" \notin cls[e] /\ ~animated[e])

\* C4 witness: the scan has run (at start and again after a reset) on a page whose
\* footer region and the paragraph inside it, both matching inclusion selectors,
\* are in the viewport, and the card beside them was activated by the watch path.
C4_Witness ==
  /\ observer = "created"
  /\ resets = 1 /\ triggers = 0
  /\ InView(doc, scrollY, "footer") /\ InView(doc, scrollY, "copy")
  /\ "footer" \in Included(doc, cls) /\ "copy" \in Included(doc, cls)
  /\ Activated("card")

\* C5: the watched list never holds an element twice; a second observeElements
\* call right after a first changes neither the watched list nor any class; and a
\* call neither starts watching an element marked data-animated="true" nor
\* changes which elements are active.
C5_ScanIdempotent ==
  observer = "created" =>
    LET once  == observeElements(doc, cls, animated, observer, targets)
        twice == observeElements(doc, once.cls, animated, observer, once.targets)
    IN  /\ NoDuplicates(targets)
        /\ NoDuplicates(once.targets)
        /\ twice.targets = once.targets
        /\ twice.cls = once.cls
        /\ ~once.threw /\ ~twice.threw
        /\ \A e \in Nodes :
             /\ (animated[e] /\ ~Watched(e)) => e \notin Range(once.targets)
             /\ ("active" \in once.cls[e]) = ("active" \in cls[e])

\* C5 witness: a state in which a scan has work to do (an inserted paragraph is
\* not yet watched) while the card is already marked animated and released.
C5_Witness ==
  /\ observer = "created"
  /\ "para" \in doc /\ ~Watched("para") /\ ~animated["para"]
  /\ Activated("card") /\ ~Watched("card")

\* What a viewport entry leads to, step by step: a watched element sampled as
\* newly intersecting gets an intersecting entry, a delivered intersecting entry
\* gets an animation-frame callback, and the frame that runs it activates.
ViewportEntryActivates ==
  /\ \A e \in Nodes :
       (Watched(e)' /\ prev[e] # "in" /\ prev'[e] = "in") =>
         \E i \in DOMAIN queued' : queued'[i] = [target |-> e, isIntersecting |-> TRUE]
  /\ \A i \in DOMAIN queued :
       (queued' = <<>> /\ queued[i].isIntersecting) => queued[i].target \in Range(rafQueue')
  /\ \A e \in Nodes :
       (PendingActivation(e) /\ rafQueue' = <<>>) => Activated(e)'

\* C6 as stated: a call of resetAnimations leaves every element that was active
\* before it with neither the active class nor the marker, and every such element
\* that matches an inclusion selector and no exclusion selector watched; a viewport
\* entry after that activates again.
C6_ResetClearsEveryActiveElement ==
  [][ /\ resets' = resets + 1 =>
           \A e \in doc :
             "active" \in cls[e] =>
               /\ "active" \notin cls'[e]
               /\ ~animated'[e]
               /\ (e \in Included(doc, cls) /\ ~MatchesExclusion(e)) => Watched(e)'
      /\ ViewportEntryActivates ]_vars

\* C6 amended: with IntersectionObserver available, a call of resetAnimations
\* leaves every element that matches an inclusion selector with neither the active
\* class nor the marker, and every such element that matches no exclusion selector
\* watched; a viewport entry after that activates it again.
C6_ResetClearsMatchedElements ==
  [][ /\ resets' = resets + 1 =>
           \A e \in Included(doc, cls) :
             /\ "active" \notin cls'[e]
             /\ ~animated'[e]
             /\ ~MatchesExclusion(e) => Watched(e)'
      /\ ViewportEntryActivates ]_vars

\* C6 witness: the card was active when resetAnimations was called and has been
\* activated again since, by a viewport entry (the activation mutation ran once
\* after the reset, no triggerAnimation call was made, and it is released).
C6_Witness ==
  /\ resets = 1
  /\ "card" \in wasActive
  /\ Activated("card")
  /\ activations["card"] = 1
  /\ triggers = 0
  /\ ~Watched("card")

\* C7: without IntersectionObserver nothing ever attempts to watch an element and
\* no operation ends in an error.
C7_FallbackNeverFails ==
  ~ioSupported => (~err /\ targets = <<>>)

\* C8: at most one debounce timer is pending; a burst of resize events gets at
\* most one rescan, run only once 250 ms have passed since its last event, and has
\* got exactly one when its timer is no longer pending and when the next burst begins.
C8_ResizeDebounce ==
  /\ Cardinality(Pending("resize")) <= 1
  /\ burstScans <= 1
  /\ burstScans = 1 => sinceResize >= ResizeDelay
  /\ Pending("resize") # {} => burstScans = 0
  /\ (burstLen >= 1 /\ Pending("resize") = {}) => burstScans = 1
  /\ closedScans \in {-1, 1}

\* C8 witness: a burst of more than one event has had its single rescan, after an
\* earlier burst that had had its own.
C8_Witness ==
  /\ burstLen >= 2
  /\ burstScans = 1
  /\ closedScans = 1
  /\ sinceResize >= ResizeDelay

\* Arguments the idempotence of triggerAnimation is checked on: every element of
\* the document, and three selectors.
AnyTriggerArg ==
  {[element |-> e] : e \in doc}
    \cup {[selector |-> TagSel("div")], [selector |-> TagSel("p")], [selector |-> ClassSel("card")]}

\* C9: in any state, visible or not, triggerAnimation gives each addressed element
\* that is not active the active class and the marker, leaves an element that is
\* already active and every other element as it is, and a second call right after
\* the first changes nothing.
C9_TriggerIdempotent ==
  \A arg \in AnyTriggerArg :
    LET addressed == IF "selector" \in DOMAIN arg
                     THEN {e \in doc : MatchesSelector(cls, e, arg.selector)}
                     ELSE {arg.element}
        once  == triggerAnimation(doc, cls, animated, arg)
        twice == triggerAnimation(doc, once.cls, once.animated, arg)
    IN  /\ \A e \in Nodes :
             IF e \in addressed /\ "active" \notin cls[e]
             THEN once.cls[e] = cls[e] \cup {"active"} /\ once.animated[e]
             ELSE once.cls[e] = cls[e] /\ once.animated[e] = animated[e]
        /\ twice.cls = once.cls
        /\ twice.animated = once.animated

\* C9 witness: triggerAnimation has activated the card while it was outside the
\* viewport: it is active and marked, still watched, and not in view.
C9_Witness ==
  /\ triggers = 1
  /\ Activated("card")
  /\ activations["card"] = 1
  /\ Watched("card")
  /\ prev["card"] = "out"
  /\ ~InView(doc, scrollY, "card")

\* C10: one click on the menu trigger flips the panel's open class exactly once
\* and leaves the close glyph on an open panel and the menu glyph on a closed
\* one; the document's listener, which gets the same click, does not undo it.
C10_TriggerClickFlipsOnce ==
  [][ (menuWired /\ lastClick' # lastClick /\ lastClick'.target = "toggle") =>
        /\ PanelOpen' = ~PanelOpen
        /\ icon' = IF PanelOpen' THEN "ri-close-line" ELSE "ri-menu-line" ]_vars

\* C10 witness: a click on the trigger has opened the panel.
C10_Witness ==
  /\ menuWired
  /\ lastClick.target = "toggle"
  /\ PanelOpen
  /\ icon = "ri-close-line"

\* C11: a click on a navigation link of the panel, and a click outside both the
\* panel and the trigger, leave the panel closed with the menu glyph whatever the
\* state before; a click inside the panel that is not on a link leaves the open
\* state and the icon as they were.
C11_AutoClose ==
  [][ (menuWired /\ lastClick' # lastClick) =>
        /\ lastClick'.target \in {"link", "outside"} =>
             (~PanelOpen' /\ icon' = "ri-menu-line")
        /\ lastClick'.target = "panel" =>
             (PanelOpen' = PanelOpen /\ icon' = icon) ]_vars

\* C11 witness: a click on a navigation link found the panel open and left it
\* closed with the menu glyph.
C11_Witness ==
  /\ menuWired
  /\ lastClick.target = "link"
  /\ lastClick.open
  /\ ~PanelOpen
  /\ icon = "ri-menu-line"

\* C12: on a page whose trigger or panel element is missing, no click of any kind
\* changes a class or the icon, and none raises an error.
C12_NoWiringWithoutBothElements ==
  [][ ((~hasToggle \/ "navbar" \notin doc) /\ lastClick' # lastClick) =>
        (cls' = cls /\ icon' = icon /\ err' = err /\ ~err') ]_vars

\* C12 witness: the trigger of a page without a panel has been clicked, and
\* nothing has changed or failed.
C12_Witness ==
  /\ hasToggle
  /\ "navbar" \notin doc
  /\ lastClick.target = "toggle"
  /\ cls = [e \in Nodes |-> BaseClasses(e)]
  /\ icon = "ri-menu-line"
  /\ ~err

\* The nodes a step adds directly under the body: the batch's addedNodes.
AddedNodes == {e \in doc' \ doc : ParentOf(e) = "body"}

\* What a rescan leaves: every element of the document that an inclusion selector
\* matches, that no exclusion selector matches and that is not marked is watched.
ScannedAfter ==
  \A e \in Included(doc', cls) :
    (~MatchesExclusion(e) /\ ~animated[e]) => Watched(e)'

\* C13: once the MutationObserver is registered, a batch of insertions is followed
\* by a rescan if some added node itself matches an inclusion selector and no
\* exclusion selector, and by none (no element is newly watched, no class is
\* added) otherwise, whatever the added nodes' descendants match.
C13_MutationGate ==
  [][ (mutationObserver /\ doc' # doc) =>
        IF \E node \in AddedNodes :
             node \in Included(doc', cls) /\ ~MatchesExclusion(node)
        THEN ScannedAfter
        ELSE targets' = targets /\ cls' = cls ]_vars

\* C14: no element marked data-animated="true" is in the watched set, whichever
\* path marked it (viewport entry or triggerAnimation).
C14_MarkedElementsAreReleased ==
  \A e \in Nodes : animated[e] => ~Watched(e)

\* C15: every watched element carries at least one of the five animation classes,
\* and no element carries more than its markup's animation class or, when the
\* markup gives it none, the default fade-in-up.
C15_OneAnimationClass ==
  \A e \in Nodes :
    /\ Watched(e) => cls[e] \cap animationClasses # {}
    /\ cls[e] \cap animationClasses \in
         {{}, IF BaseClasses(e) \cap animationClasses = {}
              THEN {"fade-in-up"}
              ELSE BaseClasses(e) \cap animationClasses}

\* C18: an element of the document has the active class exactly if it has
\* data-animated="true".
C18_ClassAndMarkerAgree ==
  \A e \in doc : ("active" \in cls[e]) <=> animated[e]

C17_IconMatchesPanel ==
  (menuWired /\ triggers = 0) => ((icon = "ri-close-line") <=> PanelOpen)

\* C20: the panel's open class changes only in a step that is a click: no step
\* of the animation system (scan, viewport-entry activation, resetAnimations,
\* fallback reveal) opens or closes the panel. Calls of triggerAnimation, whose
\* argument may address the panel itself, are left aside.
C20_PanelChangesOnlyOnClick ==
  [][ ("navbar" \in doc /\ lastClick' = lastClick /\ triggers' = triggers) =>
        (PanelOpen' = PanelOpen) ]_vars

\* Nothing is pending: no timer, no queued observer entry, no animation-frame callback.
Quiescent == timers = {} /\ queued = <<>> /\ rafQueue = <<>>

\* C19: once the observers are set up and every pending timer and callback has
\* run, each element of the document that matches an inclusion selector and no
\* exclusion selector, inserted elements and their descendants included, is
\* watched or already activated.
C19_InsertedElementsGetWatched ==
  (observer = "created" /\ mutationObserver /\ Quiescent) =>
    \A e \in Included(doc, cls) :
      ~MatchesExclusion(e) => (Watched(e) \/ Activated(e))

====
